---- MODULE Spec2Model ----
(***************************************************************************)
(* Model of naglfar's layout engine (src/layout.rs): the construction of  *)
(* the layout tree from a style tree and the recursive layout pass.       *)
(*                                                                         *)
(* Numbers.  Stored lengths are app_units::Au, an i32 count of 1/60 px.    *)
(* Style values and font measures are f64 pixels.  An f64 pixel value is   *)
(* represented here by an integer count of half-Au (1/120 px), so that     *)
(* every value the code forms from the inputs of this model (sums,         *)
(* differences, halves of Au values) is represented exactly; the           *)
(* conversion f64 -> Au then really loses the half unit, as it does in     *)
(* the code.                                                               *)
(***************************************************************************)
EXTENDS Integers, Sequences, FiniteSets, TLC

VARIABLES
    pc,          \* position in the call: "start", "built", "done", "panic", ...
    auRound,     \* TRUE: Au::from_f64_px rounds to nearest; FALSE: it truncates
    style,       \* the style tree given to the call (immutable input)
    cblock,      \* the containing block Dimensions given to the call
    extents,     \* the font extents the cairo context reports
    box          \* the LayoutBox under construction / returned

vars == <<pc, auRound, style, cblock, extents, box>>

----------------------------------------------------------------------------
(* Arithmetic helpers *)

Abs(n) == IF n < 0 THEN -n ELSE n

\* Rust's integer division and float-to-int cast: toward zero.
TruncDiv(a, b) ==
    IF (a >= 0) = (b > 0) THEN Abs(a) \div Abs(b) ELSE -(Abs(a) \div Abs(b))

Max(a, b) == IF a < b THEN b ELSE a

RECURSIVE SumSeq(_)
SumSeq(s) == IF s = <<>> THEN 0 ELSE Head(s) + SumSeq(Tail(s))

----------------------------------------------------------------------------
(* app_units::Au and f64 pixels *)

AU_PER_PX == 60

\* n whole pixels as an f64 pixel value (in half-Au).
Px(n) == n * AU_PER_PX * 2

\* Au::from_f64_px: (px * 60) as i32 in the older app_units, (px * 60).round()
\* in the newer ones (round is half away from zero).
from_f64_px(v) ==
    IF auRound
    THEN (IF v >= 0 THEN (v + 1) \div 2 ELSE -((-v + 1) \div 2))
    ELSE TruncDiv(v, 2)

\* Au::to_f64_px
to_f64_px(a) == a * 2

\* Au::to_px: the i32 number of whole pixels.
au_to_px(a) == TruncDiv(a, AU_PER_PX)

\* `x as i32` of an f64 pixel value.
as_i32(v) == TruncDiv(v, AU_PER_PX * 2)

DEFAULT_FONT_SIZE == Px(16)

DEFAULT_LINE_HEIGHT == (DEFAULT_FONT_SIZE * 12) \div 10

----------------------------------------------------------------------------
(* css::Value and style::StyledNode, as far as layout.rs uses them *)

Keyword(k) == [kw |-> k, px |-> 0]

Length(v) == [kw |-> "", px |-> v]

auto == Keyword("auto")

zero == Length(0)

\* Value::to_px: the length in px, 0 for a keyword.
value_to_px(v) == IF v.kw = "" THEN v.px ELSE 0

\* StyledNode::value: the declared value, if any (an Option as a sequence).
value(node, name) ==
    IF name \in DOMAIN node.specified THEN <<node.specified[name]>> ELSE <<>>

\* StyledNode::lookup: the property, else the shorthand, else the default.
lookup(node, name, fallback, default) ==
    IF name \in DOMAIN node.specified THEN node.specified[name]
    ELSE IF fallback \in DOMAIN node.specified THEN node.specified[fallback]
    ELSE default

\* StyledNode::display
display(node) ==
    LET d == lookup(node, "display", "display", Keyword("inline")) IN
    IF d.kw = "block" THEN "Block"
    ELSE IF d.kw = "none" THEN "None"
    ELSE "Inline"

----------------------------------------------------------------------------
(* Rect, EdgeSizes, Dimensions *)

ZeroRect == [x |-> 0, y |-> 0, width |-> 0, height |-> 0]

ZeroEdges == [left |-> 0, right |-> 0, top |-> 0, bottom |-> 0]

DefaultDimensions ==
    [content |-> ZeroRect, padding |-> ZeroEdges,
     border |-> ZeroEdges, margin |-> ZeroEdges]

\* A sign slip in expanded_by: the left edge moves the wrong way.
expanded_by_wrong_sign(rect, edge) ==
    [x |-> rect.x + edge.left,
     y |-> rect.y - edge.top,
     width |-> rect.width + edge.left + edge.right,
     height |-> rect.height + edge.top + edge.bottom]

expanded_by(rect, edge) ==
    [x |-> rect.x - edge.left,
     y |-> rect.y - edge.top,
     width |-> rect.width + edge.left + edge.right,
     height |-> rect.height + edge.top + edge.bottom]

padding_box(d) == expanded_by(d.content, d.padding)

border_box(d) == expanded_by(padding_box(d), d.border)

margin_box(d) == expanded_by(border_box(d), d.margin)

----------------------------------------------------------------------------
(* LayoutBox *)

\* The style-node reference of a box is the node's path from the root of the
\* style tree (child indices); an AnonymousBlock has none.
NoNode == <<0>>

LayoutBox_new(box_type, path) ==
    [box_type |-> box_type, node |-> path,
     dimensions |-> DefaultDimensions, children |-> <<>>]

RECURSIVE NodeAt(_, _)
NodeAt(root, path) ==
    IF path = <<>> THEN root
    ELSE NodeAt(root.children[Head(path)], Tail(path))

----------------------------------------------------------------------------
(* calculate_block_width *)

calculate_block_width(d, node, containing_block) ==
    LET width0 == IF value(node, "width") = <<>> THEN auto
                  ELSE value(node, "width")[1]
        margin_left0 == lookup(node, "margin-left", "margin", zero)
        margin_right0 == lookup(node, "margin-right", "margin", zero)
        border_left == lookup(node, "border-left-width", "border-width", zero)
        border_right == lookup(node, "border-right-width", "border-width", zero)
        padding_left == lookup(node, "padding-left", "padding", zero)
        padding_right == lookup(node, "padding-right", "padding", zero)
        total == SumSeq(<<value_to_px(margin_left0), value_to_px(margin_right0),
                          value_to_px(border_left), value_to_px(border_right),
                          value_to_px(padding_left), value_to_px(padding_right),
                          value_to_px(width0)>>)
        over == width0 # auto
                /\ total > to_f64_px(containing_block.content.width)
        margin_left1 == IF over /\ margin_left0 = auto THEN zero ELSE margin_left0
        margin_right1 == IF over /\ margin_right0 = auto THEN zero ELSE margin_right0
        underflow == containing_block.content.width - from_f64_px(total)
        uf == to_f64_px(underflow)
        wa == width0 = auto
        la == margin_left1 = auto
        ra == margin_right1 = auto
        mlz == IF la THEN zero ELSE margin_left1
        mrz == IF ra THEN zero ELSE margin_right1
        used ==
            CASE ~wa /\ ~la /\ ~ra ->
                   [w |-> width0, ml |-> margin_left1,
                    mr |-> Length(value_to_px(margin_right1) + uf)]
              [] ~wa /\ ~la /\ ra ->
                   [w |-> width0, ml |-> margin_left1, mr |-> Length(uf)]
              [] ~wa /\ la /\ ~ra ->
                   [w |-> width0, ml |-> Length(uf), mr |-> margin_right1]
              [] wa ->
                   IF uf >= 0
                   THEN [w |-> Length(uf), ml |-> mlz, mr |-> mrz]
                   ELSE [w |-> zero, ml |-> mlz,
                         mr |-> Length(value_to_px(mrz) + uf)]
              [] ~wa /\ la /\ ra ->
                   [w |-> width0, ml |-> Length(uf \div 2), mr |-> Length(uf \div 2)]
    IN [d EXCEPT
          !.content.width = from_f64_px(value_to_px(used.w)),
          !.padding.left = from_f64_px(value_to_px(padding_left)),
          !.padding.right = from_f64_px(value_to_px(padding_right)),
          !.border.left = from_f64_px(value_to_px(border_left)),
          !.border.right = from_f64_px(value_to_px(border_right)),
          !.margin.left = from_f64_px(value_to_px(used.ml)),
          !.margin.right = from_f64_px(value_to_px(used.mr))]

----------------------------------------------------------------------------
(* layout_text *)

\* layout_text counting lines by rounding the quotient up.
text_lines_ceil(width, max_width) ==
    IF au_to_px(max_width) # 0
    THEN Max(1, (as_i32(width) + au_to_px(max_width) - 1) \div au_to_px(max_width))
    ELSE 1

\* The number of lines layout_text reserves for a text of f64 width `width`.
text_lines(width, max_width) ==
    IF au_to_px(max_width) # 0
    THEN TruncDiv(as_i32(width), au_to_px(max_width)) + 1
    ELSE 1

layout_text(d, node, saved_block) ==
    IF node.node.data = "text"
    THEN [d EXCEPT
            !.content.width = from_f64_px(node.node.advance),
            !.content.height = from_f64_px(DEFAULT_LINE_HEIGHT)
                                * text_lines(node.node.advance,
                                             saved_block.content.width)]
    ELSE d

----------------------------------------------------------------------------
(* build_layout_tree *)

\* What a panicking call leaves: no LayoutBox at all.
PanicBox ==
    [box_type |-> "Panic", node |-> NoNode,
     dimensions |-> DefaultDimensions, children |-> <<>>]

NoBox ==
    [box_type |-> "NoBox", node |-> NoNode,
     dimensions |-> DefaultDimensions, children |-> <<>>]

\* get_inline_container without the look at the last child: a Block box gets
\* a new AnonymousBlock for every inline child.
get_inline_container_always_new(self) ==
    IF self.box_type \in {"InlineNode", "AnonymousBlock"} THEN self
    ELSE [self EXCEPT !.children =
            Append(@, LayoutBox_new("AnonymousBlock", NoNode))]

\* get_inline_container, as the box it leaves behind: a Block box whose last
\* child is not an AnonymousBlock gets a new one pushed.
get_inline_container(self) ==
    IF self.box_type \in {"InlineNode", "AnonymousBlock"} THEN self
    ELSE IF Len(self.children) > 0
            /\ self.children[Len(self.children)].box_type = "AnonymousBlock"
         THEN self
         ELSE [self EXCEPT !.children =
                 Append(@, LayoutBox_new("AnonymousBlock", NoNode))]

\* root.get_inline_container().children.push(child)
push_inline(self, child) ==
    LET s == get_inline_container(self) IN
    IF s.box_type \in {"InlineNode", "AnonymousBlock"}
    THEN [s EXCEPT !.children = Append(@, child)]
    ELSE [s EXCEPT !.children[Len(s.children)].children = Append(@, child)]

\* build_layout_tree accepting a display:none root as an inline box.
root_box_no_panic(style_node, path) ==
    CASE display(style_node) = "Block" -> LayoutBox_new("BlockNode", path)
      [] display(style_node) = "Inline" -> LayoutBox_new("InlineNode", path)
      [] display(style_node) = "None" -> LayoutBox_new("InlineNode", path)

\* The box the root of build_layout_tree starts from.
root_box(style_node, path) ==
    CASE display(style_node) = "Block" -> LayoutBox_new("BlockNode", path)
      [] display(style_node) = "Inline" -> LayoutBox_new("InlineNode", path)
      [] display(style_node) = "None" -> PanicBox

RECURSIVE build_layout_tree(_, _)
RECURSIVE build_children(_, _, _, _)

\* The loop body keeping a display:none child as an empty box (hidden, not
\* elided).
build_child_keeps_hidden(root, style_node, path, i) ==
    LET child == style_node.children[i]
        built == build_layout_tree(child, Append(path, i))
    IN CASE display(child) = "Block" ->
              IF built.box_type = "Panic" THEN PanicBox
              ELSE [root EXCEPT !.children = Append(@, built)]
         [] display(child) = "Inline" ->
              IF built.box_type = "Panic" THEN PanicBox
              ELSE push_inline(root, built)
         [] display(child) = "None" ->
              [root EXCEPT !.children =
                 Append(@, LayoutBox_new("BlockNode", Append(path, i)))]

\* One round of the loop over style_node.children, from child i on.
build_child(root, style_node, path, i) ==
    LET child == style_node.children[i]
        built == build_layout_tree(child, Append(path, i))
    IN CASE display(child) = "Block" ->
              IF built.box_type = "Panic" THEN PanicBox
              ELSE [root EXCEPT !.children = Append(@, built)]
         [] display(child) = "Inline" ->
              IF built.box_type = "Panic" THEN PanicBox
              ELSE push_inline(root, built)
         [] display(child) = "None" -> root

build_children(root, style_node, path, i) ==
    IF i > Len(style_node.children) \/ root.box_type = "Panic" THEN root
    ELSE build_children(build_child(root, style_node, path, i),
                        style_node, path, i + 1)

build_layout_tree(style_node, path) ==
    build_children(root_box(style_node, path), style_node, path, 1)

----------------------------------------------------------------------------
(* The layout pass *)

get_style_node(self) == NodeAt(style, self.node)

\* margin, border and padding of one side, looked up with default 0.
edge_px(node, name, shorthand) ==
    from_f64_px(value_to_px(lookup(node, name, shorthand, zero)))

calculate_inline_position(d0, node, containing_block) ==
    LET d == [d0 EXCEPT
                !.margin.top = edge_px(node, "margin-top", "margin"),
                !.margin.bottom = edge_px(node, "margin-bottom", "margin"),
                !.margin.left = edge_px(node, "margin-left", "margin"),
                !.margin.right = edge_px(node, "margin-right", "margin"),
                !.border.top = edge_px(node, "border-top-width", "border-width"),
                !.border.bottom = edge_px(node, "border-bottom-width", "border-width"),
                !.border.left = edge_px(node, "border-left-width", "border-width"),
                !.border.right = edge_px(node, "border-right-width", "border-width"),
                !.padding.top = edge_px(node, "padding-top", "padding"),
                !.padding.bottom = edge_px(node, "padding-bottom", "padding")]
    IN [d EXCEPT
          !.content.x = containing_block.content.width + containing_block.content.x
                        + d.margin.left + d.border.left + d.padding.left,
          !.content.y = containing_block.content.height + containing_block.content.y
                        + d.margin.top + d.border.top + d.padding.top]

calculate_block_position(d0, node, containing_block) ==
    LET d == [d0 EXCEPT
                !.margin.top = edge_px(node, "margin-top", "margin"),
                !.margin.bottom = edge_px(node, "margin-bottom", "margin"),
                !.border.top = edge_px(node, "border-top-width", "border-width"),
                !.border.bottom = edge_px(node, "border-bottom-width", "border-width"),
                !.padding.top = edge_px(node, "padding-top", "padding"),
                !.padding.bottom = edge_px(node, "padding-bottom", "padding")]
    IN [d EXCEPT
          !.content.x = containing_block.content.x
                        + d.margin.left + d.border.left + d.padding.left,
          !.content.y = containing_block.content.height + containing_block.content.y
                        + d.margin.top + d.border.top + d.padding.top]

\* The gap between the line height and the font's ascent + descent.
line_gap == DEFAULT_LINE_HEIGHT - extents.ascent - extents.descent

calculate_block_height(d, node) ==
    LET h == value(node, "height")
        d1 == IF h # <<>> /\ h[1].kw = ""
              THEN [d EXCEPT !.content.height = from_f64_px(h[1].px)]
              ELSE d
    IN [d1 EXCEPT !.content.y = @ - from_f64_px(TruncDiv(line_gap, 2))]

RECURSIVE layout(_, _, _)
RECURSIVE block_children_from(_, _)
RECURSIVE inline_children_from(_, _)
RECURSIVE anonymous_children_from(_, _, _, _)

\* The loop of layout_block_children, from child i on.
block_children_from(self, i) ==
    IF i > Len(self.children) THEN self
    ELSE LET child == layout(self.children[i], self.dimensions, self.dimensions)
         IN block_children_from(
              [self EXCEPT
                 !.children[i] = child,
                 !.dimensions.content.height =
                     @ + margin_box(child.dimensions).height],
              i + 1)

layout_block_children(self) == block_children_from(self, 1)

\* The loop of layout_inline_children, from child i on.
inline_children_from(self, i) ==
    IF i > Len(self.children) THEN self
    ELSE LET child == layout(self.children[i], self.dimensions, self.dimensions)
         IN inline_children_from(
              [self EXCEPT
                 !.children[i] = child,
                 !.dimensions.content.width =
                     @ + margin_box(child.dimensions).width],
              i + 1)

\* layout_inline_children pinning the height to the line height.
layout_inline_children_line_height(self) ==
    [inline_children_from(self, 1) EXCEPT
       !.dimensions.content.height = from_f64_px(DEFAULT_LINE_HEIGHT)]

layout_inline_children(self) ==
    [inline_children_from(self, 1) EXCEPT
       !.dimensions.content.height = from_f64_px(DEFAULT_FONT_SIZE)]

\* The fold of the AnonymousBlock arm: the largest of 0, the box's own height
\* and the child's margin-box height.
anonymous_height(own, child_height) == Max(Max(0, own), child_height)

\* The loop of the AnonymousBlock arm, from child i on.
anonymous_children_from(self, containing_block, saved_block, i) ==
    IF i > Len(self.children) THEN self
    ELSE LET child == layout(self.children[i], containing_block, saved_block)
         IN anonymous_children_from(
              [self EXCEPT
                 !.children[i] = child,
                 !.dimensions.content.height =
                     anonymous_height(@, margin_box(child.dimensions).height)],
              [containing_block EXCEPT
                 !.content.width = @ + margin_box(child.dimensions).width],
              saved_block, i + 1)

layout_anonymous(self, containing_block, saved_block) ==
    anonymous_children_from(
        [self EXCEPT !.dimensions = containing_block],
        [containing_block EXCEPT !.content.width = from_f64_px(0)],
        saved_block, 1)

layout_block(self, containing_block, saved_block) ==
    LET node == get_style_node(self)
        s1 == [self EXCEPT !.dimensions =
                 calculate_block_width(@, node, containing_block)]
        s2 == [s1 EXCEPT !.dimensions =
                 calculate_block_position(@, node, containing_block)]
        s3 == layout_block_children(s2)
    IN [s3 EXCEPT !.dimensions = calculate_block_height(@, node)]

layout_inline(self, containing_block, saved_block) ==
    LET node == get_style_node(self)
        s1 == [self EXCEPT !.dimensions =
                 calculate_inline_position(@, node, containing_block)]
        s2 == layout_inline_children(s1)
    IN [s2 EXCEPT !.dimensions = layout_text(@, node, saved_block)]

layout(self, containing_block, saved_block) ==
    CASE self.box_type = "BlockNode" ->
           layout_block(self, containing_block, saved_block)
      [] self.box_type = "InlineNode" ->
           layout_inline(self, containing_block, saved_block)
      [] self.box_type = "AnonymousBlock" ->
           layout_anonymous(self, containing_block, saved_block)

----------------------------------------------------------------------------
(* Inputs *)

\* Largest style tree (in nodes) given to layout_tree.
MaxNodes == 3

\* Largest style tree (in nodes) given to build_layout_tree alone.
MaxBuildNodes == 5

Element == [data |-> "element", advance |-> 0]

Text(advance) == [data |-> "text", advance |-> advance]

Label(node, specified) == [node |-> node, specified |-> specified]

StyledNode(label, children) ==
    [node |-> label.node, specified |-> label.specified, children |-> children]

RECURSIVE Trees(_, _, _)
RECURSIVE Forests(_, _, _)

\* The style trees of exactly n nodes: inner nodes labelled from `inner`,
\* leaves from `inner` or `leaf` (a text node has no children).
Trees(n, inner, leaf) ==
    IF n = 1 THEN {StyledNode(l, <<>>) : l \in inner \cup leaf}
    ELSE {StyledNode(l, f) : l \in inner, f \in Forests(n - 1, inner, leaf)}

\* The non-empty sequences of style trees of n nodes in all.
Forests(n, inner, leaf) ==
    {<<t>> : t \in Trees(n, inner, leaf)}
    \cup UNION {{<<t>> \o f : t \in Trees(k, inner, leaf),
                              f \in Forests(n - k, inner, leaf)} : k \in 1..(n - 1)}

TreesUpTo(n, inner, leaf) == UNION {Trees(k, inner, leaf) : k \in 1..n}

DisplayOnly(d) == Label(Element, "display" :> Keyword(d))

PlainBlock == DisplayOnly("block")

SizedBlock ==
    Label(Element,
          "display" :> Keyword("block") @@ "width" :> Length(Px(80))
          @@ "height" :> Length(Px(30)) @@ "margin-top" :> Length(Px(5))
          @@ "padding" :> Length(Px(3)) @@ "border-width" :> Length(Px(1)))

PlainInline == DisplayOnly("inline")

EdgedInline ==
    Label(Element,
          "display" :> Keyword("inline") @@ "margin" :> Length(Px(2))
          @@ "border-left-width" :> Length(Px(1))
          @@ "padding-left" :> Length(Px(4)) @@ "padding-top" :> Length(Px(1)))

Hidden == DisplayOnly("none")

LongText == Label(Text(Px(340)), "display" :> Keyword("inline"))

LayoutInner == {PlainBlock, SizedBlock, PlainInline, EdgedInline, Hidden}

LayoutLeaf == {LongText}

BuildInner == {PlainBlock, PlainInline, Hidden}

Viewport(x, y, width, height) ==
    [DefaultDimensions EXCEPT
       !.content = [x |-> x, y |-> y, width |-> width, height |-> height]]

ContainingBlocks ==
    {Viewport(0, 0, from_f64_px(Px(100)), from_f64_px(Px(600))),
     Viewport(from_f64_px(Px(1)), from_f64_px(Px(2)),
              from_f64_px(Px(50)), from_f64_px(Px(40)))}

\* Font extents: one font that fills the line height exactly, one that
\* leaves a gap of 3.2 px.
FontExtents ==
    {[ascent |-> DEFAULT_LINE_HEIGHT - Px(4), descent |-> Px(4)],
     [ascent |-> Px(12), descent |-> Px(4)]}

----------------------------------------------------------------------------
(* layout_tree as a state machine *)

Init ==
    /\ pc = "start"
    /\ auRound \in BOOLEAN
    /\ style \in TreesUpTo(MaxNodes, LayoutInner, LayoutLeaf)
    /\ cblock \in ContainingBlocks
    /\ extents \in FontExtents
    /\ box = NoBox

\* The style trees here declare `display` only: every length is 0, which
\* both conversions to Au map to 0, so one of them is enough.
InitBuild ==
    /\ pc = "start"
    /\ auRound = FALSE
    /\ style \in TreesUpTo(MaxBuildNodes, BuildInner, {})
    /\ cblock = Viewport(0, 0, from_f64_px(Px(100)), from_f64_px(Px(600)))
    /\ extents = [ascent |-> Px(12), descent |-> Px(4)]
    /\ box = NoBox

\* build_layout_tree returns the skeleton.
Build ==
    /\ pc = "start"
    /\ build_layout_tree(style, <<>>).box_type # "Panic"
    /\ box' = build_layout_tree(style, <<>>)
    /\ pc' = "built"
    /\ UNCHANGED <<auRound, style, cblock, extents>>

\* build_layout_tree panics: layout_tree unwinds and returns nothing.
BuildPanic ==
    /\ pc = "start"
    /\ build_layout_tree(style, <<>>).box_type = "Panic"
    /\ pc' = "panic"
    /\ UNCHANGED <<auRound, style, cblock, extents, box>>

\* root_box.layout(ctx, containing_block, saved_block), the container's
\* height set to 0, and the return of root_box.
Layout ==
    /\ pc = "built"
    /\ box' = layout(box, [cblock EXCEPT !.content.height = from_f64_px(0)], cblock)
    /\ pc' = "done"
    /\ UNCHANGED <<auRound, style, cblock, extents>>

Next == Build \/ BuildPanic \/ Layout

Spec == Init /\ [][Next]_vars

SpecBuild == InitBuild /\ [][Next]_vars

----------------------------------------------------------------------------
(* calculate_block_width and layout_text alone, on one box *)

WidthValues == {Length(Px(50)), Length(Px(150)), Length(30)}

MarginValues == {auto, Length(Px(20))}

PaddingValues == {Length(Px(1)), Length(1)}

\* The declarations of one property: absent, or one of `values`.
Declared(name, values) ==
    {"display" :> Keyword("block")}
    \cup {"display" :> Keyword("block") @@ name :> v : v \in values}

WidthStyles ==
    {StyledNode(Label(Element, w @@ ml @@ mr @@ pl), <<>>) :
        w \in Declared("width", WidthValues),
        ml \in Declared("margin-left", MarginValues),
        mr \in Declared("margin-right", MarginValues),
        pl \in Declared("padding-left", PaddingValues)}

InitWidth ==
    /\ pc = "width"
    /\ auRound \in BOOLEAN
    /\ style \in WidthStyles
    /\ cblock \in {Viewport(0, 0, from_f64_px(Px(100)), 0),
                   Viewport(0, 0, from_f64_px(Px(100)) + 1, 0)}
    /\ extents = [ascent |-> Px(12), descent |-> Px(4)]
    /\ box = LayoutBox_new("BlockNode", <<>>)

\* self.calculate_block_width(containing_block)
CalcBlockWidth ==
    /\ pc = "width"
    /\ box' = [box EXCEPT !.dimensions =
                 calculate_block_width(@, get_style_node(box), cblock)]
    /\ pc' = "width_done"
    /\ UNCHANGED <<auRound, style, cblock, extents>>

NextWidth == CalcBlockWidth

SpecWidth == InitWidth /\ [][NextWidth]_vars

\* f64 advance widths: 0, 0.5 px, whole pixels, and 99.5 px.
TextAdvances ==
    {0, AU_PER_PX, Px(50), Px(100), Px(150), Px(200), Px(340), Px(99) + AU_PER_PX}

\* Containing widths in Au: 0, under one pixel, one pixel, 50 px, 100 px, 100.5 px.
TextMaxWidths ==
    {0, 30, AU_PER_PX - 1, AU_PER_PX, 50 * AU_PER_PX, 100 * AU_PER_PX,
     100 * AU_PER_PX + 30}

InitText ==
    /\ pc = "text"
    /\ auRound \in BOOLEAN
    /\ style \in {StyledNode(Label(Text(w), "display" :> Keyword("inline")), <<>>) :
                    w \in TextAdvances}
    /\ cblock \in {Viewport(0, 0, m, 0) : m \in TextMaxWidths}
    /\ extents = [ascent |-> Px(12), descent |-> Px(4)]
    /\ box = LayoutBox_new("InlineNode", <<>>)

\* self.layout_text(ctx, saved_block)
LayoutText ==
    /\ pc = "text"
    /\ box' = [box EXCEPT !.dimensions =
                 layout_text(@, get_style_node(box), cblock)]
    /\ pc' = "text_done"
    /\ UNCHANGED <<auRound, style, cblock, extents>>

NextText == LayoutText

SpecText == InitText /\ [][NextText]_vars

----------------------------------------------------------------------------
(* Claims *)

\* The sum width + margins + borders + paddings of the stored used values.
UsedWidthSum(d) ==
    d.content.width + d.margin.left + d.margin.right
    + d.border.left + d.border.right + d.padding.left + d.padding.right

\* The f64 total calculate_block_width forms from the declared values.
DeclaredTotal(node) ==
    value_to_px(lookup(node, "margin-left", "margin", zero))
    + value_to_px(lookup(node, "margin-right", "margin", zero))
    + value_to_px(lookup(node, "border-left-width", "border-width", zero))
    + value_to_px(lookup(node, "border-right-width", "border-width", zero))
    + value_to_px(lookup(node, "padding-left", "padding", zero))
    + value_to_px(lookup(node, "padding-right", "padding", zero))
    + (IF value(node, "width") = <<>> THEN 0 ELSE value_to_px(value(node, "width")[1]))

WidthDeclared(node) ==
    value(node, "width") # <<>> /\ value(node, "width")[1] # auto

\* C1 (as claimed): after calculate_block_width, when the declared width is
\* not auto and the total is at most the containing content width, the stored
\* width, margins, borders and paddings sum to the containing content width
\* exactly, in Au.
C1_WidthClosure ==
    (pc = "width_done"
     /\ WidthDeclared(style)
     /\ DeclaredTotal(style) <= to_f64_px(cblock.content.width))
    => UsedWidthSum(box.dimensions) = cblock.content.width

\* The whole pixels of an f64 advance width and of an Au containing width.
WholePx(v) == v \div (2 * AU_PER_PX)

WholePxAu(a) == a \div AU_PER_PX

\* The smallest n with n * b >= a, for b > 0.
CeilDiv(a, b) == (a + b - 1) \div b

\* C5 (as claimed): layout_text sets content.width = w and content.height =
\* line height * max(1, ceil(w / m)) when m is nonzero, one line height when
\* m is zero.
C5_TextCeil ==
    pc = "text_done" =>
      LET w == style.node.advance
          m == cblock.content.width
      IN /\ to_f64_px(box.dimensions.content.width) = w
         /\ box.dimensions.content.height =
              (DEFAULT_LINE_HEIGHT \div 2)
              * (IF m # 0 THEN Max(1, CeilDiv(w, to_f64_px(m))) ELSE 1)

\* C5 (amended): layout_text sets content.width to the advance width (as Au)
\* and content.height to n line heights where, with W the whole pixels of
\* the advance width and M the whole pixels of the containing width (both
\* >= 0): n = 1 when M = 0 (the containing width is zero or under one pixel),
\* and otherwise n is the integer with (n - 1) * M <= W < n * M, that is
\* floor(W / M) + 1: a width that is an exact multiple k * M takes k + 1 lines.
C5_TextLines ==
    pc = "text_done" =>
      LET W == WholePx(style.node.advance)
          M == WholePxAu(cblock.content.width)
          h == box.dimensions.content.height
          line == DEFAULT_LINE_HEIGHT \div 2
      IN /\ to_f64_px(box.dimensions.content.width) = style.node.advance
         /\ \E n \in 1..(W + 1) :
              /\ h = line * n
              /\ M = 0 => n = 1
              /\ M # 0 => (n - 1) * M <= W /\ W < n * M

\* C5 witness: a text whose width is an exact multiple of the containing
\* width has been sized, and takes one line more than the quotient.
C5_Witness ==
    /\ pc = "text_done"
    /\ style.node.advance = Px(200)
    /\ cblock.content.width = 100 * AU_PER_PX
    /\ box.dimensions.content.height = 3 * (DEFAULT_LINE_HEIGHT \div 2)

----------------------------------------------------------------------------
(* Claims about the trees *)

RECURSIVE AllBoxes(_)
\* Every box of the tree rooted at b.
AllBoxes(b) ==
    {b} \cup UNION {AllBoxes(b.children[i]) : i \in DOMAIN b.children}

RECURSIVE AllPaths(_, _)
\* The path of every node of the style tree rooted at n, itself at `path`.
AllPaths(n, path) ==
    {path} \cup UNION {AllPaths(n.children[i], Append(path, i)) : i \in DOMAIN n.children}

HasTree == pc \in {"built", "done"}

Styled(b) == b.box_type \in {"BlockNode", "InlineNode"}

Right(r) == r.x + r.width

Bottom(r) == r.y + r.height

ContainsRect(outer, inner) ==
    /\ outer.x <= inner.x
    /\ outer.y <= inner.y
    /\ Right(outer) >= Right(inner)
    /\ Bottom(outer) >= Bottom(inner)

\* C2 (as claimed): in every box of the returned tree the margin box
\* contains the border box, which contains the padding box, which contains
\* the content rectangle.
C2_Containment ==
    pc = "done" =>
      \A b \in AllBoxes(box) :
        /\ ContainsRect(margin_box(b.dimensions), border_box(b.dimensions))
        /\ ContainsRect(border_box(b.dimensions), padding_box(b.dimensions))
        /\ ContainsRect(padding_box(b.dimensions), b.dimensions.content)

\* The outer rectangle reaches at least as far as the inner one on every
\* side whose edge size is not negative.
ContainsOnSides(outer, inner, edge) ==
    /\ edge.left >= 0 => outer.x <= inner.x
    /\ edge.top >= 0 => outer.y <= inner.y
    /\ edge.right >= 0 => Right(outer) >= Right(inner)
    /\ edge.bottom >= 0 => Bottom(outer) >= Bottom(inner)

\* C2 (amended): in every box of the returned tree, each of the margin,
\* border and padding boxes reaches at least as far as the next inner
\* rectangle on every side whose used edge size is not negative; a negative
\* used margin-right (from a negative underflow) puts the margin box's right
\* edge inside the border box.
C2_ContainmentNonNegative ==
    pc = "done" =>
      \A b \in AllBoxes(box) :
        LET d == b.dimensions IN
        /\ ContainsOnSides(margin_box(d), border_box(d), d.margin)
        /\ ContainsOnSides(border_box(d), padding_box(d), d.border)
        /\ ContainsOnSides(padding_box(d), d.content, d.padding)
        /\ d.margin.right < 0 => Right(margin_box(d)) < Right(border_box(d))

\* C2 witness: a laid-out Block box with positive padding and border whose
\* used margin-right is negative.
C2_Witness ==
    /\ pc = "done"
    /\ \E b \in AllBoxes(box) :
         /\ b.box_type = "BlockNode"
         /\ b.dimensions.margin.right < 0
         /\ b.dimensions.padding.left > 0
         /\ b.dimensions.border.top > 0

\* The style-node references held by the children of a box, in order.
ChildRefs(b) == [i \in DOMAIN b.children |-> b.children[i].node]

\* The style children of the node at `path` in the given positions.
PathsOf(path, positions) == [k \in DOMAIN positions |-> Append(path, positions[k])]

Interval(i, j) == [k \in 1..(j - i + 1) |-> i + k - 1]

IsInlineChild(n, i) ==
    i \in DOMAIN n.children /\ display(n.children[i]) = "Inline"

\* The maximal runs i..j of consecutive inline-level children of style node n.
InlineRuns(n) ==
    {r \in (DOMAIN n.children) \X (DOMAIN n.children) :
        /\ r[1] <= r[2]
        /\ \A k \in r[1]..r[2] : IsInlineChild(n, k)
        /\ ~IsInlineChild(n, r[1] - 1)
        /\ ~IsInlineChild(n, r[2] + 1)}

NoAdjacentAnonymous(b) ==
    \A k \in 1..(Len(b.children) - 1) :
       ~(b.children[k].box_type = "AnonymousBlock"
         /\ b.children[k + 1].box_type = "AnonymousBlock")

\* C3 (as claimed): under every Block box, each maximal run of consecutive
\* inline-level style children yields exactly one AnonymousBlock child that
\* holds exactly the boxes of that run, in document order, and no two
\* AnonymousBlock children are adjacent.
C3_RunPerAnonymous ==
    HasTree =>
      \A b \in AllBoxes(box) :
        b.box_type = "BlockNode" =>
          /\ \A r \in InlineRuns(NodeAt(style, b.node)) :
               Cardinality({k \in DOMAIN b.children :
                   /\ b.children[k].box_type = "AnonymousBlock"
                   /\ ChildRefs(b.children[k])
                        = PathsOf(b.node, Interval(r[1], r[2]))}) = 1
          /\ NoAdjacentAnonymous(b)

RECURSIVE Visible(_, _)
\* The positions from i on of the children of n that are not display:none.
Visible(n, i) ==
    IF i > Len(n.children) THEN <<>>
    ELSE IF display(n.children[i]) = "None" THEN Visible(n, i + 1)
    ELSE <<i>> \o Visible(n, i + 1)

RECURSIVE Flatten(_, _)
\* The style-node references under box b from child k on: a styled child's
\* own, an AnonymousBlock's children's.
Flatten(b, k) ==
    IF k > Len(b.children) THEN <<>>
    ELSE (IF b.children[k].box_type = "AnonymousBlock"
          THEN ChildRefs(b.children[k])
          ELSE <<b.children[k].node>>) \o Flatten(b, k + 1)

\* C3 (amended): the runs are those of the children that are not
\* display:none (a display:none child between two inline children does not
\* end the run).  Under every Block box: the children, with each
\* AnonymousBlock replaced by its own children, are the boxes of the
\* non-elided style children in document order; every AnonymousBlock holds
\* at least one box and only inline-level ones; every other child is a Block
\* box; and no two AnonymousBlock children are adjacent.  So each maximal run
\* of N >= 1 inline-level children yields exactly one AnonymousBlock with
\* exactly those N boxes.
C3_Grouping ==
    HasTree =>
      \A b \in AllBoxes(box) :
        b.box_type = "BlockNode" =>
          LET n == NodeAt(style, b.node) IN
          /\ Flatten(b, 1) = PathsOf(b.node, Visible(n, 1))
          /\ \A k \in DOMAIN b.children :
               LET c == b.children[k] IN
               IF c.box_type = "AnonymousBlock"
               THEN /\ Len(c.children) >= 1
                    /\ \A j \in DOMAIN c.children :
                         /\ c.children[j].box_type = "InlineNode"
                         /\ display(NodeAt(style, c.children[j].node)) = "Inline"
               ELSE /\ c.box_type = "BlockNode"
                    /\ display(NodeAt(style, c.node)) = "Block"
          /\ NoAdjacentAnonymous(b)

\* C3 witness: a Block box with a single AnonymousBlock child that holds two
\* inline boxes whose style nodes are separated by a display:none sibling.
C3_Witness ==
    /\ HasTree
    /\ \E b \in AllBoxes(box) :
         /\ b.box_type = "BlockNode"
         /\ Len(b.children) = 1
         /\ b.children[1].box_type = "AnonymousBlock"
         /\ Len(b.children[1].children) = 2
         /\ Len(NodeAt(style, b.node).children) = 3
         /\ display(NodeAt(style, b.node).children[2]) = "None"

\* The node at `path`, or one of its ancestors, is display:none.
Elided(path) ==
    \E k \in 0..Len(path) : display(NodeAt(style, SubSeq(path, 1, k))) = "None"

\* C4: when the root is not display:none, no Block or Inline box of the tree
\* refers to a display:none node or to a node below one, and elided nodes
\* cause no box: the styled boxes are exactly one per non-elided style node,
\* and every AnonymousBlock holds at least one box.
C4_Elision ==
    HasTree =>
      LET boxes == AllBoxes(box)
          styled == {b \in boxes : Styled(b)}
      IN /\ \A b \in styled : ~Elided(b.node)
         /\ {b.node : b \in styled} = {p \in AllPaths(style, <<>>) : ~Elided(p)}
         /\ Cardinality(styled) = Cardinality({b.node : b \in styled})
         /\ \A b \in boxes : b.box_type = "AnonymousBlock" => Len(b.children) >= 1

\* C4 witness: a tree was built from a style tree with a display:none node
\* below the root's children that has a child of its own that is not
\* display:none.
C4_Witness ==
    /\ HasTree
    /\ \E p \in AllPaths(style, <<>>) :
         /\ Len(p) >= 2
         /\ display(NodeAt(style, p)) = "None"
         /\ \E i \in DOMAIN NodeAt(style, p).children :
              display(NodeAt(style, p).children[i]) # "None"

\* C6: a root with display:none makes build_layout_tree panic, so the call
\* can only panic: no layout step runs and no LayoutBox is returned; a root
\* that is block or inline never makes it panic, whatever is display:none
\* below it, and the call returns a Block or Inline root box for the root
\* style node.
C6_RootPrecondition ==
    /\ (build_layout_tree(style, <<>>).box_type = "Panic") = (display(style) = "None")
    /\ display(style) = "None" =>
         /\ pc \in {"start", "panic"}
         /\ box = NoBox
    /\ display(style) # "None" =>
         /\ pc \in {"start", "built", "done"}
         /\ HasTree => Styled(box) /\ box.node = <<>>

\* C6 witness: the call has panicked on a display:none root that has
\* children.
C6_Witness ==
    /\ pc = "panic"
    /\ display(style) = "None"
    /\ Len(style.children) >= 1

----------------------------------------------------------------------------
(* Claims about the positions and sizes *)

\* The margin-box widths (heights) of the children of b before child i, summed.
WidthBefore(b, i) ==
    SumSeq([j \in 1..(i - 1) |-> margin_box(b.children[j].dimensions).width])

HeightBefore(b, i) ==
    SumSeq([j \in 1..(i - 1) |-> margin_box(b.children[j].dimensions).height])

\* The content top of a finished Block box as it was while its children
\* were laid out: before calculate_block_height moved it up.
TopDuringChildren(b) ==
    b.dimensions.content.y + from_f64_px(TruncDiv(line_gap, 2))

HeightDeclared(node) ==
    value(node, "height") # <<>> /\ value(node, "height")[1].kw = ""

\* C7 (as claimed): the children of every Block box stack: each child's
\* margin box starts at the bottom of the previous child's, the first one's
\* at the parent's content top as used during child layout, and without an
\* explicit height the parent's content height is the sum of the children's
\* margin-box heights.
C7_VerticalStacking ==
    pc = "done" =>
      \A b \in AllBoxes(box) :
        b.box_type = "BlockNode" =>
          /\ \A k \in 1..(Len(b.children) - 1) :
               margin_box(b.children[k + 1].dimensions).y
                 = Bottom(margin_box(b.children[k].dimensions))
          /\ Len(b.children) >= 1 =>
               margin_box(b.children[1].dimensions).y = TopDuringChildren(b)
          /\ ~HeightDeclared(NodeAt(style, b.node)) =>
               b.dimensions.content.height = HeightBefore(b, Len(b.children) + 1)

RECURSIVE MaxSeq(_)
MaxSeq(s) == IF Len(s) = 1 THEN s[1] ELSE Max(s[1], MaxSeq(Tail(s)))

C9_InlinePosition ==
    pc = "done" =>
      \A c \in AllBoxes(box) :
        c.box_type \in {"InlineNode", "AnonymousBlock"} =>
          \A i \in DOMAIN c.children :
            LET b == c.children[i]
                node == NodeAt(style, b.node)
                ml == edge_px(node, "margin-left", "margin")
                bl == edge_px(node, "border-left-width", "border-width")
                pl == edge_px(node, "padding-left", "padding")
            IN b.box_type = "InlineNode" =>
                 /\ b.dimensions.margin.left = ml
                 /\ b.dimensions.border.left = bl
                 /\ b.dimensions.padding.left = pl
                 /\ b.dimensions.content.x
                      = c.dimensions.content.x + WidthBefore(c, i) + ml + bl + pl
                 /\ margin_box(b.dimensions).x
                      = c.dimensions.content.x + WidthBefore(c, i)

IsInlineElement(b) ==
    b.box_type = "InlineNode" /\ NodeAt(style, b.node).node.data = "element"

\* C10 (as claimed): every non-text Inline box has content.width = the sum
\* of its children's margin-box widths and content.height = one
\* DEFAULT_LINE_HEIGHT.
C10_InlineLineHeight ==
    pc = "done" =>
      \A b \in AllBoxes(box) :
        IsInlineElement(b) =>
          /\ b.dimensions.content.width = WidthBefore(b, Len(b.children) + 1)
          /\ 10 * b.dimensions.content.height = 12 * 16 * AU_PER_PX

\* C10 (amended): every non-text Inline box has content.width = the sum of
\* its children's margin-box widths and content.height = DEFAULT_FONT_SIZE
\* (16 px), not the line height (19.2 px), whatever the number of children.
C10_InlineFontSize ==
    pc = "done" =>
      \A b \in AllBoxes(box) :
        IsInlineElement(b) =>
          /\ b.dimensions.content.width = WidthBefore(b, Len(b.children) + 1)
          /\ b.dimensions.content.height = 16 * AU_PER_PX

\* C10 witness: a laid-out non-text Inline box with two children and a
\* positive width.
C10_Witness ==
    /\ pc = "done"
    /\ \E b \in AllBoxes(box) :
         /\ IsInlineElement(b)
         /\ Len(b.children) = 2
         /\ b.dimensions.content.width > 0

====
